---- MODULE Spec2Model ----
\* Task-tracking API (akk_django/tasks) and its read-only proxy (akk_fasapi).
\* The entity store holds users, labels and tasks; every request handler is one
\* atomic action over the store, except in SpecRace, where label creation is
\* split at the point between its existence pre-check and its insert.
EXTENDS Integers, Sequences, FiniteSets, TLC

\* ---------------------------------------------------------------- bounds
MaxUsers == 2       \* user accounts
MaxLabels == 2      \* label primary keys ever handed out
MaxTasks == 1       \* task primary keys ever handed out
MaxIdsLen == 2      \* longest label_ids list in a request
MaxReq == 2         \* concurrent label-create requests in SpecRace

VARIABLES users, labels, tasks, nextLabelId, nextTaskId, last, reqs, proxy

vars == <<users, labels, tasks, nextLabelId, nextTaskId, last, reqs, proxy>>

\* ---------------------------------------------------------------- data
Names == {"Work", "Home"}
STATUS_CHOICE == {"TODO", "IN_PROGRESS", "DONE"}
NoStatus == "absent"          \* completion_status key not in the payload
NoName == "absent"            \* name key not in the payload
NoOwner == 0                  \* owner_id key not in the payload
SAFE_METHODS == {"GET", "HEAD", "OPTIONS"}

UserIds == 1..MaxUsers
LabelIds == 1..MaxLabels
TaskIds == 1..MaxTasks

\* Sequences over S of length 0..n.
RECURSIVE SeqsUpTo(_, _)
SeqsUpTo(S, n) ==
  IF n = 0 THEN {<<>>}
  ELSE LET shorter == SeqsUpTo(S, n - 1)
       IN shorter \cup {Append(s, x) : s \in {t \in shorter : Len(t) = n - 1}, x \in S}

Range(s) == {s[i] : i \in DOMAIN s}

\* The label_ids entry of a request body: the key is absent, or its value is a
\* JSON list of ids, a JSON string, or the empty JSON object.
LabelIdsValues ==
  {[shape |-> "absent", ids |-> <<>>], [shape |-> "str", ids |-> <<>>],
   [shape |-> "dict", ids |-> <<>>]}
  \cup {[shape |-> "list", ids |-> s] : s \in SeqsUpTo(LabelIds, MaxIdsLen)}

TaskPayloads ==
  [completion_status : STATUS_CHOICE \cup {NoStatus},
   owner_id : UserIds \cup {NoOwner},
   label_ids : LabelIdsValues]

LabelPayloads == [name : Names \cup {NoName}, owner_id : UserIds \cup {NoOwner}]

\* ---------------------------------------------------------------- responses
Ok == [kind |-> "OK", fields |-> {}]
NotFound == [kind |-> "NotFound", fields |-> {}]
PermissionDenied == [kind |-> "PermissionDenied", fields |-> {}]
IntegrityError == [kind |-> "IntegrityError", fields |-> {}]
ValidationError(fs) == [kind |-> "ValidationError", fields |-> fs]
\* ValidationError({"label_ids": "The format for label_ids must be a list."})
MustBeAList ==
  [kind |-> "ValidationError", fields |-> {"label_ids"}, message |-> "must be a list"]

\* The last request answered: its operation and response and, for a list
\* request, the caller and the ids of the entities in the body (user is 0 and
\* view is empty for every other operation).
Sent(op, r) == [op |-> op, resp |-> r, user |-> 0, view |-> {}]
Listed(op, u, ids) == [op |-> op, resp |-> Ok, user |-> u, view |-> ids]
NoRequest == Sent("none", Ok)

\* ---------------------------------------------------------------- queries
is_staff(u) == users[u].is_staff

\* get_queryset without its owner filter.
TaskQuerysetAll(u) == DOMAIN tasks

TaskQueryset(u) ==
  IF is_staff(u) THEN DOMAIN tasks
  ELSE {t \in DOMAIN tasks : tasks[t].owner = u}

\* get_queryset without its owner filter.
LabelQuerysetAll(u) == DOMAIN labels

LabelQueryset(u) ==
  IF is_staff(u) THEN DOMAIN labels
  ELSE {l \in DOMAIN labels : labels[l].owner = u}

\* An object permission that also lets staff write.
OwnerOrStaffMayWrite(method, owner, u) ==
  method \in SAFE_METHODS \/ owner = u \/ is_staff(u)

has_object_permission(method, owner, u) ==
  IF method \in SAFE_METHODS THEN TRUE ELSE owner = u

\* get_object of a detail route: the id is looked up in the caller's queryset,
\* then the object permission is checked.
GetTask(u, id, method) ==
  IF id \notin TaskQueryset(u) THEN NotFound
  ELSE IF ~has_object_permission(method, tasks[id].owner, u) THEN PermissionDenied
  ELSE Ok

\* A lookup in the whole table instead of the caller's queryset.
GetLabelUnscoped(u, id, method) ==
  IF id \notin DOMAIN labels THEN NotFound
  ELSE IF ~has_object_permission(method, labels[id].owner, u) THEN PermissionDenied
  ELSE Ok

GetLabel(u, id, method) ==
  IF id \notin LabelQueryset(u) THEN NotFound
  ELSE IF ~has_object_permission(method, labels[id].owner, u) THEN PermissionDenied
  ELSE Ok

\* ---------------------------------------------------------------- entity store
\* Label.Meta.unique_together = ('name', 'owner'): the row rec, stored under
\* primary key id, would repeat the (name, owner) of another row.
\* A label table without the unique index.
NoUniqueIndex(id, rec) == FALSE

ViolatesUniqueTogether(id, rec) ==
  \E l \in DOMAIN labels \ {id} :
    labels[l].name = rec.name /\ labels[l].owner = rec.owner

\* f with key k bound to v (k added when it is new).
Put(f, k, v) == [x \in DOMAIN f \cup {k} |-> IF x = k THEN v ELSE f[x]]
\* f without key k.
Drop(f, k) == [x \in DOMAIN f \ {k} |-> f[x]]

Result(r, ls, ts) == [resp |-> r, labels |-> ls, tasks |-> ts]
Rejected(r) == Result(r, labels, tasks)

\* ---------------------------------------------------------------- serializers
\* owner_id = PrimaryKeyRelatedField(queryset=User.objects.all(), required=False)
OwnerIdInvalid(p) == p.owner_id # NoOwner /\ p.owner_id \notin DOMAIN users

\* label_ids = PrimaryKeyRelatedField(many=True, queryset=Label.objects.all(),
\* required=False): a string is not a list of items; every item of an iterable
\* must be the primary key of a label (of any owner).
LabelIdsInvalid(p) ==
  \/ p.label_ids.shape = "str"
  \/ \E i \in Range(p.label_ids.ids) : i \notin DOMAIN labels

TaskSerializerErrors(p) ==
  (IF OwnerIdInvalid(p) THEN {"owner_id"} ELSE {})
  \cup (IF LabelIdsInvalid(p) THEN {"label_ids"} ELSE {})

\* name is a required CharField when the serializer is not partial (create).
LabelSerializerErrors(p, partial) ==
  (IF OwnerIdInvalid(p) THEN {"owner_id"} ELSE {})
  \cup (IF ~partial /\ p.name = NoName THEN {"name"} ELSE {})

\* ---------------------------------------------------------------- task views
\* A test that takes any iterable JSON value for a list.
IsIterable(v) == v.shape \in {"list", "dict"}

\* isinstance(labels_ids, list)
IsList(v) == v.shape = "list"

\* Label.objects.filter(id__in=labels_ids, owner=self.request.user)
valid_labels(labels_ids, u) ==
  {l \in DOMAIN labels : l \in Range(labels_ids) /\ labels[l].owner = u}

\* A check that only asks whether any requested label was found.
NoLabelMatched(labels_ids, u) ==
  Len(labels_ids) > 0 /\ valid_labels(labels_ids, u) = {}

\* len(valid_labels) != len(labels_ids)
LabelCountMismatch(labels_ids, u) ==
  Cardinality(valid_labels(labels_ids, u)) # Len(labels_ids)

\* A save that lets the payload's owner_id through.
OwnerFromPayload(u, p) == IF p.owner_id = NoOwner THEN u ELSE p.owner_id

\* serializer.save(owner=self.request.user, ...): the keyword argument replaces
\* whatever owner the validated payload carries.
CreateOwner(u, p) == u

\* A create that ignores the payload's completion_status.
AlwaysTodo(p) == "TODO"

\* completion_status = models.CharField(..., default='TODO'), a writable field
\* of TaskSerializer: the payload's value when it has one, else the default.
InitialStatus(p) ==
  IF p.completion_status = NoStatus THEN "TODO" ELSE p.completion_status

\* TaskViewSet.create -> perform_create
TaskCreate(u, p) ==
  IF TaskSerializerErrors(p) # {} THEN Rejected(ValidationError(TaskSerializerErrors(p)))
  ELSE
    LET labels_ids == IF IsList(p.label_ids) THEN p.label_ids.ids ELSE <<>>
    IN IF LabelCountMismatch(labels_ids, u)
       THEN Rejected(ValidationError({"label_ids"}))
       ELSE Result(Ok, labels,
              Put(tasks, nextTaskId,
                  [completion_status |-> InitialStatus(p),
                   owner |-> CreateOwner(u, p),
                   labels |-> valid_labels(labels_ids, u)]))

\* What serializer.save() writes from the validated payload of an update.
\* completion_status stands for the plain fields of a task: title and
\* description are patched the same way and no view reads them.
PatchedTask(t, p) ==
  [completion_status |->
     IF p.completion_status = NoStatus THEN t.completion_status
     ELSE p.completion_status,
   owner |-> IF p.owner_id = NoOwner THEN t.owner ELSE p.owner_id,
   labels |-> t.labels]

\* A save that adds the given labels to the ones the task has.
MergeLabels(t, ls) == [t EXCEPT !.labels = @ \cup ls]

\* serializer.save(labels=valid_labels): the many-to-many field is set to the
\* given labels.
SetLabels(t, ls) == [t EXCEPT !.labels = ls]

\* 'owner_id' in self.request.data and serializer.instance.owner !=
\* self.request.user and not self.request.user.is_staff
OwnerChangeDenied(u, owner, p) ==
  p.owner_id # NoOwner /\ owner # u /\ ~is_staff(u)

\* perform_update of TaskViewSet, reached with the object and a valid payload.
TaskPerformUpdate(u, id, p) ==
  IF OwnerChangeDenied(u, tasks[id].owner, p) THEN Rejected(PermissionDenied)
  ELSE IF p.label_ids.shape # "absent"
  THEN IF ~IsList(p.label_ids) THEN Rejected(MustBeAList)
       ELSE IF LabelCountMismatch(p.label_ids.ids, u)
       THEN Rejected(ValidationError({"label_ids"}))
       ELSE Result(Ok, labels,
              Put(tasks, id,
                  SetLabels(PatchedTask(tasks[id], p),
                            valid_labels(p.label_ids.ids, u))))
  ELSE Result(Ok, labels, Put(tasks, id, PatchedTask(tasks[id], p)))

\* TaskViewSet.update / partial_update
TaskUpdate(u, id, p) ==
  IF GetTask(u, id, "PATCH") # Ok THEN Rejected(GetTask(u, id, "PATCH"))
  ELSE IF TaskSerializerErrors(p) # {}
  THEN Rejected(ValidationError(TaskSerializerErrors(p)))
  ELSE TaskPerformUpdate(u, id, p)

\* TaskViewSet.destroy
TaskDelete(u, id) ==
  IF GetTask(u, id, "DELETE") # Ok THEN Rejected(GetTask(u, id, "DELETE"))
  ELSE Result(Ok, labels, Drop(tasks, id))

\* TaskViewSet.retrieve
TaskRetrieve(u, id) == Rejected(GetTask(u, id, "GET"))

\* ---------------------------------------------------------------- label views
\* Label.objects.filter(name=name, owner=self.request.user).exists()
LabelNameTaken(name, u) ==
  \E l \in DOMAIN labels : labels[l].name = name /\ labels[l].owner = u

\* The INSERT or UPDATE of serializer.save(): the unique index is the last word.
LabelSave(id, rec) ==
  IF ViolatesUniqueTogether(id, rec) THEN Rejected(IntegrityError)
  ELSE Result(Ok, Put(labels, id, rec), tasks)

\* LabelViewSet.create -> perform_create
LabelCreate(u, p) ==
  IF LabelSerializerErrors(p, FALSE) # {}
  THEN Rejected(ValidationError(LabelSerializerErrors(p, FALSE)))
  ELSE IF LabelNameTaken(p.name, u) THEN Rejected(ValidationError({"name"}))
  ELSE LabelSave(nextLabelId, [name |-> p.name, owner |-> CreateOwner(u, p)])

PatchedLabel(l, p) ==
  [name |-> IF p.name = NoName THEN l.name ELSE p.name,
   owner |-> IF p.owner_id = NoOwner THEN l.owner ELSE p.owner_id]

\* name and name != serializer.instance.name and Label.objects.filter(name=name,
\* owner=self.request.user).exclude(id=serializer.instance.id).exists()
RenameTaken(u, id, p) ==
  /\ p.name # NoName
  /\ p.name # labels[id].name
  /\ \E l \in DOMAIN labels \ {id} : labels[l].name = p.name /\ labels[l].owner = u

\* perform_update of LabelViewSet
LabelPerformUpdate(u, id, p) ==
  IF OwnerChangeDenied(u, labels[id].owner, p) THEN Rejected(PermissionDenied)
  ELSE IF RenameTaken(u, id, p) THEN Rejected(ValidationError({"name"}))
  ELSE LabelSave(id, PatchedLabel(labels[id], p))

\* LabelViewSet.update / partial_update
LabelUpdate(u, id, p) ==
  IF GetLabel(u, id, "PATCH") # Ok THEN Rejected(GetLabel(u, id, "PATCH"))
  ELSE IF LabelSerializerErrors(p, TRUE) # {}
  THEN Rejected(ValidationError(LabelSerializerErrors(p, TRUE)))
  ELSE LabelPerformUpdate(u, id, p)

\* LabelViewSet.destroy: the rows of the task-label join table go with the label.
LabelDelete(u, id) ==
  IF GetLabel(u, id, "DELETE") # Ok THEN Rejected(GetLabel(u, id, "DELETE"))
  ELSE Result(Ok, Drop(labels, id),
         [t \in DOMAIN tasks |-> [tasks[t] EXCEPT !.labels = @ \ {id}]])

\* LabelViewSet.retrieve
LabelRetrieve(u, id) == Rejected(GetLabel(u, id, "GET"))

\* ---------------------------------------------------------------- requests
IdleReqs == [r \in 1..MaxReq |-> [pc |-> "idle", user |-> 0, name |-> NoName, resp |-> Ok]]
IdleProxy == [endpoint |-> "none", authorization |-> FALSE,
              upstream |-> [kind |-> "none", status |-> 0, body |-> "none"],
              out |-> [status |-> 0, detail |-> "none"]]

\* The first account exists from the start and may be a staff account
\* (createsuperuser); every account made through the registration view is an
\* ordinary one.
Init ==
  /\ \E s \in BOOLEAN : users = (1 :> [is_staff |-> s])
  /\ labels = << >>
  /\ tasks = << >>
  /\ nextLabelId = 1
  /\ nextTaskId = 1
  /\ last = NoRequest
  /\ reqs = IdleReqs
  /\ proxy = IdleProxy

\* The handler's result r becomes the store, and its response the last one sent.
Answer(op, r) ==
  /\ labels' = r.labels
  /\ tasks' = r.tasks
  /\ last' = Sent(op, r.resp)

\* UserRegistrationView: create_user makes an account that is not staff.
Register ==
  /\ Cardinality(DOMAIN users) < MaxUsers
  /\ users' = Put(users, Cardinality(DOMAIN users) + 1, [is_staff |-> FALSE])
  /\ last' = Sent("register", Ok)
  /\ UNCHANGED <<labels, tasks, nextLabelId, nextTaskId, reqs, proxy>>

DoTaskCreate ==
  \E u \in DOMAIN users, p \in TaskPayloads :
    /\ LET r == TaskCreate(u, p)
       IN /\ r.resp = Ok => nextTaskId <= MaxTasks
          /\ Answer("task_create", r)
          /\ nextTaskId' = IF r.resp = Ok THEN nextTaskId + 1 ELSE nextTaskId
    /\ UNCHANGED <<users, nextLabelId, reqs, proxy>>

DoTaskUpdate ==
  \E u \in DOMAIN users, id \in TaskIds, p \in TaskPayloads :
    /\ Answer("task_update", TaskUpdate(u, id, p))
    /\ UNCHANGED <<users, nextLabelId, nextTaskId, reqs, proxy>>

DoTaskDelete ==
  \E u \in DOMAIN users, id \in TaskIds :
    /\ Answer("task_delete", TaskDelete(u, id))
    /\ UNCHANGED <<users, nextLabelId, nextTaskId, reqs, proxy>>

\* TaskViewSet.list: the body is the caller's queryset.
DoTaskList ==
  \E u \in DOMAIN users :
    /\ last' = Listed("task_list", u, TaskQueryset(u))
    /\ UNCHANGED <<users, labels, tasks, nextLabelId, nextTaskId, reqs, proxy>>

DoTaskRetrieve ==
  \E u \in DOMAIN users, id \in TaskIds :
    /\ Answer("task_retrieve", TaskRetrieve(u, id))
    /\ UNCHANGED <<users, nextLabelId, nextTaskId, reqs, proxy>>

DoLabelCreate ==
  \E u \in DOMAIN users, p \in LabelPayloads :
    /\ LET r == LabelCreate(u, p)
       IN /\ r.resp = Ok => nextLabelId <= MaxLabels
          /\ Answer("label_create", r)
          /\ nextLabelId' = IF r.resp = Ok THEN nextLabelId + 1 ELSE nextLabelId
    /\ UNCHANGED <<users, nextTaskId, reqs, proxy>>

DoLabelUpdate ==
  \E u \in DOMAIN users, id \in LabelIds, p \in LabelPayloads :
    /\ Answer("label_update", LabelUpdate(u, id, p))
    /\ UNCHANGED <<users, nextLabelId, nextTaskId, reqs, proxy>>

DoLabelDelete ==
  \E u \in DOMAIN users, id \in LabelIds :
    /\ Answer("label_delete", LabelDelete(u, id))
    /\ UNCHANGED <<users, nextLabelId, nextTaskId, reqs, proxy>>

\* LabelViewSet.list
DoLabelList ==
  \E u \in DOMAIN users :
    /\ last' = Listed("label_list", u, LabelQueryset(u))
    /\ UNCHANGED <<users, labels, tasks, nextLabelId, nextTaskId, reqs, proxy>>

DoLabelRetrieve ==
  \E u \in DOMAIN users, id \in LabelIds :
    /\ Answer("label_retrieve", LabelRetrieve(u, id))
    /\ UNCHANGED <<users, nextLabelId, nextTaskId, reqs, proxy>>

Next ==
  \/ Register
  \/ DoTaskCreate
  \/ DoTaskUpdate
  \/ DoTaskDelete
  \/ DoTaskList
  \/ DoTaskRetrieve
  \/ DoLabelCreate
  \/ DoLabelUpdate
  \/ DoLabelDelete
  \/ DoLabelList
  \/ DoLabelRetrieve

Spec == Init /\ [][Next]_vars

\* ---------------------------------------------------------------- concurrent label creation
\* Two POST /labels/ requests in flight: each runs perform_create's existence
\* check and its insert as separate steps, in any interleaving.
LabelCreateBegin(r) ==
  \E u \in DOMAIN users, n \in Names :
    /\ reqs[r].pc = "idle"
    /\ reqs' = [reqs EXCEPT ![r] = [pc |-> "check", user |-> u, name |-> n, resp |-> Ok]]
    /\ UNCHANGED <<users, labels, tasks, nextLabelId, nextTaskId, last, proxy>>

\* if Label.objects.filter(name=name, owner=self.request.user).exists(): raise
LabelCreateCheck(r) ==
  /\ reqs[r].pc = "check"
  /\ reqs' = [reqs EXCEPT ![r] =
       IF LabelNameTaken(reqs[r].name, reqs[r].user)
       THEN [@ EXCEPT !.pc = "done", !.resp = ValidationError({"name"})]
       ELSE [@ EXCEPT !.pc = "insert"]]
  /\ UNCHANGED <<users, labels, tasks, nextLabelId, nextTaskId, last, proxy>>

\* serializer.save(owner=self.request.user); nothing around it catches the
\* unique index's refusal.
LabelCreateInsert(r) ==
  /\ reqs[r].pc = "insert"
  /\ LET p == [name |-> reqs[r].name, owner_id |-> NoOwner]
         res == LabelSave(nextLabelId,
                  [name |-> p.name, owner |-> CreateOwner(reqs[r].user, p)])
     IN /\ labels' = res.labels
        /\ nextLabelId' = IF res.resp = Ok THEN nextLabelId + 1 ELSE nextLabelId
        /\ reqs' = [reqs EXCEPT ![r] = [@ EXCEPT !.pc = "done", !.resp = res.resp]]
  /\ UNCHANGED <<users, tasks, nextTaskId, last, proxy>>

NextRace ==
  \/ Register
  \/ \E r \in 1..MaxReq : LabelCreateBegin(r)
  \/ \E r \in 1..MaxReq : LabelCreateCheck(r)
  \/ \E r \in 1..MaxReq : LabelCreateInsert(r)

SpecRace == Init /\ [][NextRace]_vars

\* ---------------------------------------------------------------- proxy service
\* What the CRUD service (or whatever answers at its address) sends back: no
\* answer at all, or a status with a body. Statuses are 2xx, 4xx and 5xx.
UpstreamStatuses == {200, 201, 400, 401, 403, 404, 500, 502, 503}
\* A JSON object with a 'detail' key, a JSON object without one, a JSON array,
\* and a body that is not JSON (an HTML error page, an empty body).
UpstreamBodies == {"object_with_detail", "object", "array", "not_json"}
Upstreams ==
  {[kind |-> "network_error", status |-> 0, body |-> "none"]}
  \cup [kind : {"response"}, status : UpstreamStatuses, body : UpstreamBodies]

\* response.raise_for_status() raises HTTPStatusError
raise_for_status(status) == status >= 400

\* exc.response.json().get('detail', 'Unknown error'), evaluated inside the
\* except clause: json() raises on a body that is not JSON and .get on a value
\* that is not an object, and no clause of the same try statement catches an
\* exception raised inside one of its handlers.
StatusErrorHandler(up) ==
  IF up.body = "not_json" \/ up.body = "array"
  THEN [status |-> 500, detail |-> "unhandled_exception"]
  ELSE IF up.body = "object_with_detail"
  THEN [status |-> up.status, detail |-> "upstream_detail"]
  ELSE [status |-> up.status, detail |-> "Unknown error"]

\* The body of get_tasks and of get_labels (the two differ in the URL alone).
Forward(up) ==
  IF up.kind = "network_error" THEN [status |-> 500, detail |-> "network_error"]
  ELSE IF raise_for_status(up.status) THEN StatusErrorHandler(up)
  ELSE IF up.body = "not_json" THEN [status |-> 500, detail |-> "unexpected_error"]
  ELSE [status |-> 200, detail |-> "upstream_body"]

get_tasks ==
  \E a \in BOOLEAN, up \in Upstreams :
    /\ proxy' = [endpoint |-> "tasks/", authorization |-> a, upstream |-> up,
                 out |-> Forward(up)]
    /\ UNCHANGED <<users, labels, tasks, nextLabelId, nextTaskId, last, reqs>>

get_labels ==
  \E a \in BOOLEAN, up \in Upstreams :
    /\ proxy' = [endpoint |-> "labels/", authorization |-> a, upstream |-> up,
                 out |-> Forward(up)]
    /\ UNCHANGED <<users, labels, tasks, nextLabelId, nextTaskId, last, reqs>>

NextProxy == get_tasks \/ get_labels

SpecProxy == Init /\ [][NextProxy]_vars

\* ================================================================ properties
Foreign(owner, u) == owner # u
StoreKept(r) == r.labels = labels /\ r.tasks = tasks
Denied(r) == r.resp \in {NotFound, PermissionDenied} /\ StoreKept(r)

\* C1: a user who is not staff is never shown, in a list or on a detail route,
\* a task or a label owned by somebody else; a staff user is shown every task
\* and every label.
OwnerScopedVisibility ==
  /\ \A b \in DOMAIN users :
       IF is_staff(b)
       THEN TaskQueryset(b) = DOMAIN tasks /\ LabelQueryset(b) = DOMAIN labels
       ELSE /\ \A t \in DOMAIN tasks :
                 Foreign(tasks[t].owner, b) =>
                   t \notin TaskQueryset(b) /\ TaskRetrieve(b, t).resp # Ok
            /\ \A l \in DOMAIN labels :
                 Foreign(labels[l].owner, b) =>
                   l \notin LabelQueryset(b) /\ LabelRetrieve(b, l).resp # Ok
  /\ last.op = "task_list" =>
       IF is_staff(last.user) THEN last.view = DOMAIN tasks
       ELSE last.view = {t \in DOMAIN tasks : tasks[t].owner = last.user}
  /\ last.op = "label_list" =>
       IF is_staff(last.user) THEN last.view = DOMAIN labels
       ELSE last.view = {l \in DOMAIN labels : labels[l].owner = last.user}

\* A label list answered to a non-staff user who owns a label, while another
\* user's label is in the store.
OwnerScopedVisibilityWitness ==
  /\ last.op = "label_list"
  /\ ~is_staff(last.user)
  /\ last.view # {}
  /\ \E l \in DOMAIN labels : Foreign(labels[l].owner, last.user)

\* C2: an update or a delete of a task or a label by anyone but its owner, a
\* staff user included, is denied and leaves tasks, labels and their
\* associations as they were; so is one of an id that names no entity.
OnlyOwnerWrites ==
  \A u \in DOMAIN users :
    /\ \A id \in TaskIds :
         (id \in DOMAIN tasks => Foreign(tasks[id].owner, u)) =>
           /\ Denied(TaskDelete(u, id))
           /\ \A p \in TaskPayloads : Denied(TaskUpdate(u, id, p))
    /\ \A id \in LabelIds :
         (id \in DOMAIN labels => Foreign(labels[id].owner, u)) =>
           /\ Denied(LabelDelete(u, id))
           /\ \A p \in LabelPayloads : Denied(LabelUpdate(u, id, p))

\* A task update refused by the object permission: the caller saw the task
\* (so is staff) and does not own it.
OnlyOwnerWritesWitness ==
  /\ last.op = "task_update"
  /\ last.resp = PermissionDenied
  /\ \E t \in DOMAIN tasks, u \in DOMAIN users :
       is_staff(u) /\ Foreign(tasks[t].owner, u)

BadLabelIds(ids, u) ==
  \/ \E i, j \in DOMAIN ids : i # j /\ ids[i] = ids[j]
  \/ \E i \in DOMAIN ids : ids[i] \notin DOMAIN labels
  \/ \E i \in DOMAIN ids : ids[i] \in DOMAIN labels /\ labels[ids[i]].owner # u

\* C4: a task create, or a task update by the task's owner, whose label_ids
\* list has a repeated id, an unknown id or an id of somebody else's label (in
\* a payload that is otherwise valid) fails with a validation error on
\* label_ids and persists nothing: no task is created, no field and no label
\* of the task changes.
BadLabelIdsPersistNothing ==
  \A u \in DOMAIN users, p \in TaskPayloads :
    (p.label_ids.shape = "list" /\ BadLabelIds(p.label_ids.ids, u) /\ ~OwnerIdInvalid(p))
    => /\ TaskCreate(u, p).resp = ValidationError({"label_ids"})
       /\ StoreKept(TaskCreate(u, p))
       /\ \A id \in DOMAIN tasks :
            tasks[id].owner = u =>
              /\ TaskUpdate(u, id, p).resp = ValidationError({"label_ids"})
              /\ StoreKept(TaskUpdate(u, id, p))

\* An update of a labelled task has just failed on label_ids.
BadLabelIdsPersistNothingWitness ==
  /\ last.op = "task_update"
  /\ last.resp = ValidationError({"label_ids"})
  /\ \E t \in DOMAIN tasks : tasks[t].labels # {}

\* C5: a successful task update without label_ids leaves the task's labels as
\* they were; one with a label_ids list makes the task's labels exactly the
\* listed ones, so the empty list leaves none.
LabelSetReplacedOrKept ==
  \A u \in DOMAIN users, id \in DOMAIN tasks, p \in TaskPayloads :
    LET r == TaskUpdate(u, id, p)
    IN r.resp = Ok =>
         /\ p.label_ids.shape \in {"absent", "list"}
         /\ p.label_ids.shape = "absent" => r.tasks[id].labels = tasks[id].labels
         /\ p.label_ids.shape = "list" => r.tasks[id].labels = Range(p.label_ids.ids)

\* A task update has just succeeded on a task that now has no label although
\* its owner has labels to give it.
LabelSetReplacedOrKeptWitness ==
  /\ last.op = "task_update"
  /\ last.resp = Ok
  /\ \E t \in DOMAIN tasks :
       /\ tasks[t].labels = {}
       /\ \E l \in DOMAIN labels : labels[l].owner = tasks[t].owner

OwnerChangeByStranger(u, owner, p) ==
  p.owner_id # NoOwner /\ owner # u /\ ~is_staff(u)

\* C7 as stated: such an update is answered PermissionDenied and changes
\* nothing.
StrangerOwnerChangePermissionDenied ==
  \A u \in DOMAIN users :
    /\ \A id \in DOMAIN tasks, p \in TaskPayloads :
         OwnerChangeByStranger(u, tasks[id].owner, p) =>
           TaskUpdate(u, id, p).resp = PermissionDenied /\ StoreKept(TaskUpdate(u, id, p))
    /\ \A id \in DOMAIN labels, p \in LabelPayloads :
         OwnerChangeByStranger(u, labels[id].owner, p) =>
           LabelUpdate(u, id, p).resp = PermissionDenied /\ StoreKept(LabelUpdate(u, id, p))

\* C7 (amended): an update that carries owner_id, from a caller who is neither
\* the entity's owner nor staff, is answered NotFound (the entity is not in the
\* caller's queryset) and changes neither the owner nor anything else.
StrangerOwnerChangeNotFound ==
  \A u \in DOMAIN users :
    /\ \A id \in DOMAIN tasks, p \in TaskPayloads :
         OwnerChangeByStranger(u, tasks[id].owner, p) =>
           TaskUpdate(u, id, p).resp = NotFound /\ StoreKept(TaskUpdate(u, id, p))
    /\ \A id \in DOMAIN labels, p \in LabelPayloads :
         OwnerChangeByStranger(u, labels[id].owner, p) =>
           LabelUpdate(u, id, p).resp = NotFound /\ StoreKept(LabelUpdate(u, id, p))

\* A task update has just been answered NotFound although every task id names
\* a task: the caller was a stranger to it.
StrangerOwnerChangeNotFoundWitness ==
  /\ last.op = "task_update"
  /\ last.resp = NotFound
  /\ \A id \in TaskIds : id \in DOMAIN tasks

\* C8 as stated: of concurrent label creates, at most one label per (name,
\* owner) is stored, and every request that is turned away ends with the
\* validation error on 'name' that the pre-check gives, never with the unique
\* index's own untranslated error.
RaceLoserGetsNameError ==
  /\ \A a, b \in DOMAIN labels :
       a # b => labels[a].name # labels[b].name \/ labels[a].owner # labels[b].owner
  /\ \A r \in 1..MaxReq :
       reqs[r].pc = "done" => reqs[r].resp \in {Ok, ValidationError({"name"})}

\* C9 as stated: when the CRUD service answers with a status that is not 2xx,
\* the proxy answers with that status and with the upstream 'detail', or with
\* the fallback message when the body has no 'detail' or cannot be parsed.
UpstreamErrorTranslated ==
  (proxy.upstream.kind = "response" /\ proxy.upstream.status \notin 200..299) =>
    /\ proxy.out.status = proxy.upstream.status
    /\ proxy.out.detail =
         IF proxy.upstream.body = "object_with_detail" THEN "upstream_detail"
         ELSE "Unknown error"

\* C10: to a caller who is not staff, every detail request (retrieve, update,
\* delete) on the id of somebody else's task or label is answered NotFound and
\* changes nothing, exactly as the same request on an id that names no entity.
ForeignIdLooksUnknown ==
  \A u \in DOMAIN users :
    ~is_staff(u) =>
      /\ \A id \in DOMAIN tasks :
           Foreign(tasks[id].owner, u) =>
             /\ TaskRetrieve(u, id) = Rejected(NotFound)
             /\ TaskRetrieve(u, id) = TaskRetrieve(u, nextTaskId)
             /\ TaskDelete(u, id) = TaskDelete(u, nextTaskId)
             /\ \A p \in TaskPayloads :
                  /\ TaskUpdate(u, id, p) = Rejected(NotFound)
                  /\ TaskUpdate(u, id, p) = TaskUpdate(u, nextTaskId, p)
      /\ \A id \in DOMAIN labels :
           Foreign(labels[id].owner, u) =>
             /\ LabelRetrieve(u, id) = Rejected(NotFound)
             /\ LabelRetrieve(u, id) = LabelRetrieve(u, nextLabelId)
             /\ LabelDelete(u, id) = LabelDelete(u, nextLabelId)
             /\ \A p \in LabelPayloads :
                  /\ LabelUpdate(u, id, p) = Rejected(NotFound)
                  /\ LabelUpdate(u, id, p) = LabelUpdate(u, nextLabelId, p)

\* A label retrieve has just been answered NotFound although every label id
\* names a label: the label was somebody else's.
ForeignIdLooksUnknownWitness ==
  /\ last.op = "label_retrieve"
  /\ last.resp = NotFound
  /\ \A id \in LabelIds : id \in DOMAIN labels

\* A label_ids value that is in the payload and is not a list.
NonList(p) == p.label_ids.shape \in {"str", "dict"}

\* C11 as stated: at task creation and at task update alike, a label_ids value
\* that is present and not a list counts as the empty list: the request
\* succeeds and the task has no labels.
NonListLabelIdsCountAsEmpty ==
  \A u \in DOMAIN users, p \in TaskPayloads :
    (NonList(p) /\ ~OwnerIdInvalid(p)) =>
      /\ TaskCreate(u, p).resp = Ok
      /\ TaskCreate(u, p).tasks[nextTaskId].labels = {}
      /\ \A id \in DOMAIN tasks :
           tasks[id].owner = u =>
             /\ TaskUpdate(u, id, p).resp = Ok
             /\ TaskUpdate(u, id, p).tasks[id].labels = {}

\* C11 (amended): at task creation a label_ids value that is present, is not a
\* list and is taken by the serializer's label_ids field (an empty JSON object)
\* counts as the empty list, and the task is created without labels; one the
\* field refuses (a JSON string) is a validation error on label_ids. At task
\* update by the owner every such value is a validation error on label_ids,
\* and the task is left as it was.
NonListLabelIdsEmptyOnCreateOnly ==
  \A u \in DOMAIN users, p \in TaskPayloads :
    (NonList(p) /\ ~OwnerIdInvalid(p)) =>
      /\ p.label_ids.shape = "dict" =>
           /\ TaskCreate(u, p).resp = Ok
           /\ TaskCreate(u, p).tasks[nextTaskId].labels = {}
      /\ p.label_ids.shape = "str" =>
           /\ TaskCreate(u, p).resp = ValidationError({"label_ids"})
           /\ StoreKept(TaskCreate(u, p))
      /\ \A id \in DOMAIN tasks :
           tasks[id].owner = u =>
             /\ TaskUpdate(u, id, p).resp.kind = "ValidationError"
             /\ TaskUpdate(u, id, p).resp.fields = {"label_ids"}
             /\ StoreKept(TaskUpdate(u, id, p))

\* An update of a labelled task has just been refused because its label_ids
\* was not a list.
NonListLabelIdsEmptyOnCreateOnlyWitness ==
  /\ last.op = "task_update"
  /\ last.resp = MustBeAList
  /\ \E t \in DOMAIN tasks : tasks[t].labels # {}

\* C12 as stated: whatever tasks and labels are created, updated (owner_id
\* included) and deleted, every label of a task is owned by the task's owner.
TaskLabelsOwnedByTaskOwner ==
  \A t \in DOMAIN tasks :
    \A l \in tasks[t].labels :
      l \in DOMAIN labels /\ labels[l].owner = tasks[t].owner

\* C13 as stated: a task that has just been created has completion_status TODO,
\* whatever the payload was.
NewTaskIsTodo ==
  (last.op = "task_create" /\ last.resp = Ok) =>
    tasks[nextTaskId - 1].completion_status = "TODO"

\* C13 (amended): a task that has just been created has completion_status TODO
\* when the payload carries no completion_status, and the payload's
\* completion_status when it carries one.
NewTaskIsTodoByDefault ==
  \A u \in DOMAIN users, p \in TaskPayloads :
    TaskCreate(u, p).resp = Ok =>
      /\ p.completion_status = NoStatus =>
           TaskCreate(u, p).tasks[nextTaskId].completion_status = "TODO"
      /\ p.completion_status # NoStatus =>
           TaskCreate(u, p).tasks[nextTaskId].completion_status = p.completion_status

\* A task has just been created and its completion_status is not TODO.
NewTaskIsTodoByDefaultWitness ==
  /\ last.op = "task_create"
  /\ last.resp = Ok
  /\ \E t \in DOMAIN tasks : tasks[t].completion_status # "TODO"

====
